---- MODULE Spec2Model ----
(***************************************************************************)
(* AdvancedVoiceBible (src/app.py): the listen loop, process_command,      *)
(* speak and the background audio worker, with the pygame mixer, the       *)
(* recognizer, gTTS and the file system as their environment.              *)
(*                                                                         *)
(* Abstractions: a temp file is a fresh number (time.time() only grows, so *)
(* the listen thread never makes the same path twice); a transcript is a   *)
(* sequence of words, and `kw in command` is a match of consecutive words; *)
(* speech_rate is held in hundredths.                                      *)
(*                                                                         *)
(* Spec is the whole program, two threads and the mixer; FairSpec adds     *)
(* scheduling. SpeedSpec runs the session's commands alone, as many as one *)
(* likes, without the audio. RemoveSpec runs _safe_remove statement by     *)
(* statement with os.remove free to fail.                                  *)
(***************************************************************************)
EXTENDS Integers, Sequences, FiniteSets, TLC

\* The number of temp files speak may create in one behaviour.
MaxFiles == 5

Files == 1..MaxFiles
NoFile == 0

\* self.states
SLEEP == 0
ACTIVE == 1
PAUSED == 2

\* speech_rate and volume, in hundredths
DefaultRate == 100
MaxRate == 200
MinRate == 50
RateStep == 25
DefaultVolume == 70

-----------------------------------------------------------------------------
(* Transcripts *)

\* str.lower() on one word
Lower(w) ==
  CASE w = "Bible" -> "bible"
    [] w = "Read" -> "read"
    [] w = "Pause" -> "pause"
    [] w = "John" -> "john"
    [] OTHER -> w

\* a transcript left in the recognizer's case
LowerAllSkipped(t) == t
LowerAll(t) == [i \in 1..Len(t) |-> Lower(t[i])]

\* `kw in t` for a phrase kw of consecutive words
Contains(t, kw) ==
  \E i \in 1..(Len(t) - Len(kw) + 1) : SubSeq(t, i, i + Len(kw) - 1) = kw

ContainsAny(t, kws) == \E kw \in kws : Contains(t, kw)

\* command.replace(" first", " fast"): a word "first" that follows a space
FixMishearing(t) ==
  [i \in 1..Len(t) |-> IF i > 1 /\ t[i] = "first" THEN "fast" ELSE t[i]]

\* command.lower().strip(), then the mishearing fix
Normalize(command) == FixMishearing(LowerAll(command))

wake_words == {<<"bible">>, <<"scripture">>, <<"word">>}
ResumeWords == {<<"resume">>, <<"continue">>}
SleepWords == {<<"sleep">>, <<"stop", "listening">>}
FasterWords == {<<"faster">>, <<"speed", "up">>}
SlowerWords == {<<"slower">>, <<"slow", "down">>}
LookupVerbs == {"read", "say", "play"}

\* "".join of the words: group(1).replace(" ", "")
RECURSIVE Concat(_)
Concat(t) == IF t = <<>> THEN "" ELSE t[1] \o Concat(Tail(t))

\* re.search(r"(?:read|say|play)\s+([\w\s:]+)", command): the leftmost verb
\* that has a word after it; 0 when there is none
VerseMatch(t) ==
  LET hits == {i \in 1..(Len(t) - 1) : t[i] \in LookupVerbs}
  IN  IF hits = {} THEN 0 ELSE CHOOSE i \in hits : \A j \in hits : i <= j

\* a reference cut off at its first word
VerseRefFirstWord(t) == t[VerseMatch(t) + 1]
VerseRef(t) == Concat(SubSeq(t, VerseMatch(t) + 1, Len(t)))

bible_data ==
  [k \in {"genesis1:1", "john3:16", "psalm23:1"} |->
     CASE k = "genesis1:1" -> "In the beginning, God created the heavens and the earth..."
       [] k = "john3:16" -> "For God so loved the world that he gave his only Son..."
       [] k = "psalm23:1" -> "The Lord is my shepherd, I shall not want..."]

ReadingText(ref) == "Reading " \o ref \o ". " \o bible_data[ref]

\* f"{self.speech_rate}" for the rates the clamps allow
RateText(r) ==
  ToString(r \div 100) \o "." \o
    (CASE r % 100 = 0 -> "0" [] r % 100 = 50 -> "5" [] OTHER -> ToString(r % 100))

SpeedText(r) == "Speed set to " \o RateText(r) \o "x"

Min(a, b) == IF a < b THEN a ELSE b
Max(a, b) == IF a > b THEN a ELSE b

\* a step up without the min
FasterUnclamped(r) == r + RateStep
Faster(r) == Min(MaxRate, r + RateStep)
Slower(r) == Max(MinRate, r - RateStep)

\* process_command on a command heard in state st at rate `rate`: what it
\* leaves in current_state and speech_rate, what it does to playback_event
\* ("keep": nothing), the text it speaks and the value it returns
ProcessCommand(raw, st, rate) ==
  LET command == Normalize(raw) IN
  IF Contains(command, <<"pause">>)
  THEN [state |-> PAUSED, event |-> "clear", rate |-> rate,
        text |-> "Playback paused", result |-> TRUE]
  ELSE IF ContainsAny(command, ResumeWords)
  THEN [state |-> ACTIVE, event |-> "set", rate |-> rate,
        text |-> "Resuming playback", result |-> TRUE]
  ELSE IF ContainsAny(command, SleepWords)
  THEN [state |-> SLEEP, event |-> "keep", rate |-> rate,
        text |-> "Going to sleep", result |-> TRUE]
  ELSE IF ContainsAny(command, FasterWords)
  THEN [state |-> st, event |-> "keep", rate |-> Faster(rate),
        text |-> SpeedText(Faster(rate)), result |-> TRUE]
  ELSE IF ContainsAny(command, SlowerWords)
  THEN [state |-> st, event |-> "keep", rate |-> Slower(rate),
        text |-> SpeedText(Slower(rate)), result |-> TRUE]
  ELSE IF VerseMatch(command) # 0
  THEN IF VerseRef(command) \in DOMAIN bible_data
       THEN [state |-> st, event |-> "keep", rate |-> rate,
             text |-> ReadingText(VerseRef(command)), result |-> TRUE]
       ELSE [state |-> st, event |-> "keep", rate |-> rate,
             text |-> "Verse not found", result |-> FALSE]
  ELSE [state |-> st, event |-> "keep", rate |-> rate,
        text |-> "Command not recognized", result |-> FALSE]

-----------------------------------------------------------------------------
(* The recognizer's outcomes *)

Transcripts ==
  { <<"Bible">>, <<"hello">>, <<"Pause">>, <<"resume">>, <<"continue">>,
    <<"go", "to", "sleep">>, <<"stop", "listening">>, <<"stop">>,
    <<"faster">>, <<"speed", "up">>, <<"slower">>, <<"slow", "down">>,
    <<"Read", "John", "3:16">>, <<"read", "mark", "1:1">>, <<"read">>,
    <<"go", "first">>, <<"stop", "Pause">>, <<"Pause", "resume">> }

Heard(kind, words) == [kind |-> kind, words |-> words]
NotHeard == Heard("None", <<>>)

\* recognizer.listen + recognize_google: text, sr.WaitTimeoutError (only with
\* a timeout, so not in PAUSED), sr.UnknownValueError, or any other exception
Outcomes(st) ==
  {Heard("Text", t) : t \in Transcripts}
    \cup {Heard("Unknown", <<>>), Heard("HardError", <<>>)}
    \cup (IF st = PAUSED THEN {} ELSE {Heard("Timeout", <<>>)})

-----------------------------------------------------------------------------
(* pygame.mixer.music *)

Idle == [status |-> "idle", file |-> NoFile]
Playing(f) == [status |-> "playing", file |-> f]

\* get_busy(): True while playing, False when idle; while paused pygame 1.9
\* answers True and pygame 2 answers False
GetBusyValues(m) ==
  CASE m.status = "playing" -> {TRUE}
    [] m.status = "paused" -> BOOLEAN
    [] OTHER -> {FALSE}

\* a stop that only pauses the stream
MusicStopOnlyPauses(m) == IF m.status = "playing" THEN [m EXCEPT !.status = "paused"] ELSE m
MusicStop(m) == Idle
MusicPause(m) == IF m.status = "playing" THEN [m EXCEPT !.status = "paused"] ELSE m
MusicUnpause(m) == IF m.status = "paused" THEN [m EXCEPT !.status = "playing"] ELSE m

-----------------------------------------------------------------------------
(* queue.Queue *)

\* put that jumps the queue
QueuePutFirst(q, f) == <<f>> \o q
QueuePut(q, f) == Append(q, f)

\* get that hands out the newest item
QueueFrontNewest(q) == q[Len(q)]
QueueFront(q) == Head(q)

\* get that leaves the item in the queue
QueueRestKeeps(q) == q
QueueRest(q) == Tail(q)
QueueEmpty(q) == q = <<>>
Range(q) == {q[i] : i \in 1..Len(q)}

-----------------------------------------------------------------------------
(* State *)

VARIABLES
  audio_queue,     \* self.audio_queue: the temp files waiting for the worker
  playback_event,  \* self.playback_event: TRUE when set
  current_state,   \* self.current_state
  speech_rate,     \* self.speech_rate, in hundredths
  volume,          \* self.volume, in hundredths
  music,           \* pygame.mixer.music: [status, file]
  disk,            \* the temp files that exist
  removeCalls,     \* per temp file, how often _safe_remove was called on it
  attempts,        \* os.remove calls made by the _safe_remove call under way
  nextFile,        \* the next fresh temp file
  wpc,             \* the audio worker's position
  audio_file,      \* the audio worker's local audio_file
  lpc,             \* the listen thread's position
  heard,           \* the outcome of the listen cycle under way
  text,            \* speak's parameters ...
  interruptible,
  priority,
  temp_file,       \* ... and its local temp_file
  ret,             \* where the speak call under way returns to
  queuedAtCall,    \* history: the queue when the priority call under way began
  superseded,      \* history: every file that was queued when a priority call began
  lastStarted      \* history: the last file the worker started to play

shared == <<audio_queue, playback_event, music, disk, removeCalls, attempts>>
session == <<current_state, speech_rate, volume>>
worker == <<wpc, audio_file, lastStarted>>
call == <<text, interruptible, priority, temp_file, ret, queuedAtCall>>
listener == <<lpc, heard, nextFile, superseded>>
vars == <<shared, session, worker, call, listener>>

Init ==
  /\ audio_queue = <<>>
  /\ playback_event = TRUE
  /\ current_state = SLEEP
  /\ speech_rate = DefaultRate
  /\ volume = DefaultVolume
  /\ music = Idle
  /\ disk = {}
  /\ removeCalls = [f \in Files |-> 0]
  /\ attempts = 0
  /\ nextFile = 1
  /\ wpc = "get"
  /\ audio_file = NoFile
  /\ lpc = "main"
  /\ heard = NotHeard
  /\ text = ""
  /\ interruptible = FALSE
  /\ priority = FALSE
  /\ temp_file = NoFile
  /\ ret = ""
  /\ queuedAtCall = {}
  /\ superseded = {}
  /\ lastStarted = NoFile

\* _safe_remove(filepath) when os.remove succeeds at once, as it does in
\* every run of Spec: the file is gone. RemoveSpec below has the failures.
SafeRemove(d, f) == d \ {f}

\* tts.save(temp_file)
Save(d, f) == d \cup {f}

Released(f) == removeCalls[f] > 0

-----------------------------------------------------------------------------
(* The audio worker *)

\* The worker is a daemon thread: it ends with the process
Running == lpc # "crashed"

\* audio_file = self.audio_queue.get()
WorkerGet ==
  /\ Running /\ wpc = "get"
  /\ ~QueueEmpty(audio_queue)
  /\ audio_file' = QueueFront(audio_queue)
  /\ audio_queue' = QueueRest(audio_queue)
  /\ wpc' = "play"
  /\ UNCHANGED <<playback_event, music, disk, removeCalls, attempts, lastStarted,
                 session, call, listener>>

\* music.load(audio_file); set_volume; play()
WorkerPlay ==
  /\ Running /\ wpc = "play"
  /\ music' = Playing(audio_file)
  /\ lastStarted' = audio_file
  /\ wpc' = "busy"
  /\ UNCHANGED <<audio_queue, playback_event, disk, removeCalls, attempts, audio_file,
                 session, call, listener>>

\* load or play raises pygame.error: nothing in audio_worker catches it
WorkerPlayFails ==
  /\ Running /\ wpc = "play"
  /\ wpc' = "dead"
  /\ UNCHANGED <<shared, audio_file, lastStarted, session, call, listener>>

\* a worker that puts the session to sleep when its file has ended
WorkerPollEndsSession ==
  /\ Running /\ wpc = "busy"
  /\ \E busy \in GetBusyValues(music) :
       IF ~busy
       THEN wpc' = "remove" /\ music' = music /\ current_state' = SLEEP
       ELSE IF ~playback_event
       THEN wpc' = "wait" /\ music' = MusicPause(music) /\ current_state' = current_state
       ELSE wpc' = "busy" /\ music' = music /\ current_state' = current_state
  /\ UNCHANGED <<audio_queue, playback_event, disk, removeCalls, attempts, audio_file,
                 lastStarted, speech_rate, volume, call, listener>>

\* while get_busy(): if not playback_event.is_set(): pause() ...; sleep(0.1)
WorkerPoll ==
  /\ Running /\ wpc = "busy"
  /\ \E busy \in GetBusyValues(music) :
       IF ~busy
       THEN wpc' = "remove" /\ music' = music
       ELSE IF ~playback_event
       THEN wpc' = "wait" /\ music' = MusicPause(music)
       ELSE wpc' = "busy" /\ music' = music
  /\ UNCHANGED <<audio_queue, playback_event, disk, removeCalls, attempts, audio_file,
                 lastStarted, session, call, listener>>

\* playback_event.wait() returns; unpause(); sleep(0.1)
WorkerWait ==
  /\ Running /\ wpc = "wait"
  /\ playback_event
  /\ music' = MusicUnpause(music)
  /\ wpc' = "busy"
  /\ UNCHANGED <<audio_queue, playback_event, disk, removeCalls, attempts, audio_file,
                 lastStarted, session, call, listener>>

\* self._safe_remove(audio_file)
WorkerRemove ==
  /\ Running /\ wpc = "remove"
  /\ disk' = SafeRemove(disk, audio_file)
  /\ removeCalls' = [removeCalls EXCEPT ![audio_file] = @ + 1]
  /\ audio_file' = NoFile
  /\ wpc' = "get"
  /\ UNCHANGED <<audio_queue, playback_event, music, attempts, lastStarted,
                 session, call, listener>>

\* The mixer reaches the end of the file it plays
MusicFinish ==
  /\ Running
  /\ music.status = "playing"
  /\ music' = Idle
  /\ UNCHANGED <<audio_queue, playback_event, disk, removeCalls, attempts,
                 session, worker, call, listener>>

Worker ==
  \/ WorkerGet \/ WorkerPlay \/ WorkerPlayFails
  \/ WorkerPoll \/ WorkerWait \/ WorkerRemove

-----------------------------------------------------------------------------
(* speak, on the listen thread *)

\* speak(t, interruptible=i, priority=p) is entered; r is where it returns to
Call(t, i, p, r) ==
  /\ lpc' = "speak"
  /\ text' = t
  /\ interruptible' = i
  /\ priority' = p
  /\ ret' = r
  /\ temp_file' = NoFile
  /\ queuedAtCall' = (IF p THEN Range(audio_queue) ELSE {})
  /\ superseded' = superseded \cup (IF p THEN Range(audio_queue) ELSE {})

\* speak's frame is gone
Leave ==
  /\ text' = ""
  /\ interruptible' = FALSE
  /\ priority' = FALSE
  /\ ret' = ""
  /\ temp_file' = NoFile
  /\ queuedAtCall' = {}

\* if interruptible and pygame.mixer.music.get_busy():
SpeakCheckBusy ==
  /\ lpc = "speak"
  /\ \E busy \in GetBusyValues(music) :
       lpc' = (IF interruptible /\ busy THEN "stop" ELSE "synth")
  /\ UNCHANGED <<shared, session, worker, call, heard, nextFile, superseded>>

\* pygame.mixer.music.stop()
SpeakStop ==
  /\ lpc = "stop"
  /\ music' = MusicStop(music)
  /\ lpc' = "synth"
  /\ UNCHANGED <<audio_queue, playback_event, disk, removeCalls, attempts,
                 session, worker, call, heard, nextFile, superseded>>

\* tts = gTTS(...); temp_file = ...; tts.save(temp_file)
SpeakSynth ==
  /\ lpc = "synth"
  /\ nextFile <= MaxFiles
  /\ temp_file' = nextFile
  /\ nextFile' = nextFile + 1
  /\ disk' = Save(disk, nextFile)
  /\ lpc' = (IF priority THEN "clear" ELSE "put")
  /\ UNCHANGED <<audio_queue, playback_event, music, removeCalls, attempts, session, worker,
                 text, interruptible, priority, ret, queuedAtCall, heard, superseded>>

\* gTTS raises: inside listen_loop's try the handler puts the session to
\* sleep; before the loop nothing catches it and the process ends
SpeakSynthFails ==
  /\ lpc = "synth"
  /\ IF ret \in {"loop", "retry"}
     THEN lpc' = "listen" /\ current_state' = SLEEP
     ELSE lpc' = "crashed" /\ current_state' = current_state
  /\ Leave
  /\ UNCHANGED <<shared, speech_rate, volume, worker, heard, nextFile, superseded>>

\* while not self.audio_queue.empty():
SpeakClearCheck ==
  /\ lpc = "clear"
  /\ lpc' = (IF QueueEmpty(audio_queue) THEN "put" ELSE "get")
  /\ UNCHANGED <<shared, session, worker, call, heard, nextFile, superseded>>

\* old_file = self.audio_queue.get(); self._safe_remove(old_file)
SpeakClearGet ==
  /\ lpc = "get"
  /\ ~QueueEmpty(audio_queue)
  /\ LET old_file == QueueFront(audio_queue) IN
       /\ disk' = SafeRemove(disk, old_file)
       /\ removeCalls' = [removeCalls EXCEPT ![old_file] = @ + 1]
  /\ audio_queue' = QueueRest(audio_queue)
  /\ lpc' = "clear"
  /\ UNCHANGED <<playback_event, music, attempts, session, worker, call, heard,
                 nextFile, superseded>>

\* self.audio_queue.put(temp_file), and the return; a caller that got False
\* from process_command goes on to speak("Please try again")
SpeakPut ==
  /\ lpc = "put"
  /\ audio_queue' = QueuePut(audio_queue, temp_file)
  /\ IF ret = "retry"
     THEN Call("Please try again", TRUE, FALSE, "loop")
     ELSE /\ lpc' = (IF ret = "listen_loop" THEN "listen_loop" ELSE "listen")
          /\ Leave
          /\ superseded' = superseded
  /\ UNCHANGED <<playback_event, music, disk, removeCalls, attempts, session, worker,
                 heard, nextFile>>

Speak ==
  \/ SpeakCheckBusy \/ SpeakStop \/ SpeakSynth \/ SpeakSynthFails
  \/ SpeakClearCheck \/ SpeakClearGet \/ SpeakPut

-----------------------------------------------------------------------------
(* __main__ and listen_loop *)

IsWake(h) == h.kind = "Text" /\ ContainsAny(LowerAll(h.words), wake_words)
\* a resume test that forgets the wake words
IsResumeWordsOnly(h) ==
  h.kind = "Text" /\ ContainsAny(LowerAll(h.words), ResumeWords)
IsResume(h) ==
  h.kind = "Text" /\ ContainsAny(LowerAll(h.words), ResumeWords \cup wake_words)
Command(h) == ProcessCommand(LowerAll(h.words), current_state, speech_rate)

\* The temp files the cycle that hears h in state st will make
FilesNeeded(st, h) ==
  CASE st = SLEEP -> IF IsWake(h) THEN 1 ELSE 0
    [] st = PAUSED -> IF IsResume(h) THEN 1 ELSE 0
    [] OTHER ->
         CASE h.kind = "HardError" -> 0
           [] h.kind = "Text" ->
                IF ProcessCommand(LowerAll(h.words), st, DefaultRate).result THEN 1 ELSE 2
           [] OTHER -> 1

\* app.speak("Bible application ready", interruptible=False)
MainSpeak ==
  /\ lpc = "main"
  /\ Call("Bible application ready", FALSE, FALSE, "listen_loop")
  /\ UNCHANGED <<shared, session, worker, heard, nextFile>>

\* self.speak("Application ready. Say 'Bible' to begin.", interruptible=False)
ListenLoopSpeak ==
  /\ lpc = "listen_loop"
  /\ Call("Application ready. Say 'Bible' to begin.", FALSE, FALSE, "enter_loop")
  /\ UNCHANGED <<shared, session, worker, heard, nextFile>>

\* audio = self.recognizer.listen(...); self.recognizer.recognize_google(audio)
Listen ==
  /\ lpc = "listen"
  /\ \E h \in Outcomes(current_state) :
       /\ nextFile + FilesNeeded(current_state, h) <= MaxFiles + 1
       /\ heard' = h
  /\ lpc' = "dispatch"
  /\ UNCHANGED <<shared, session, worker, call, nextFile, superseded>>

\* a handler that only logs
HardErrorKeepsState ==
  /\ lpc = "dispatch" /\ heard.kind = "HardError"
  /\ lpc' = "listen"
  /\ heard' = NotHeard
  /\ UNCHANGED <<shared, session, worker, call, nextFile, superseded>>

\* except Exception: self.current_state = self.states["SLEEP"]; time.sleep(1)
HardError ==
  /\ lpc = "dispatch" /\ heard.kind = "HardError"
  /\ current_state' = SLEEP
  /\ lpc' = "listen"
  /\ heard' = NotHeard
  /\ UNCHANGED <<shared, speech_rate, volume, worker, call, nextFile, superseded>>

\* if self.current_state == self.states["SLEEP"]:
DispatchSleep ==
  /\ lpc = "dispatch" /\ current_state = SLEEP
  /\ heard.kind # "HardError"
  /\ heard' = NotHeard
  /\ IF IsWake(heard)
     THEN /\ current_state' = ACTIVE
          /\ Call("How can I help you?", TRUE, FALSE, "loop")
     ELSE /\ lpc' = "listen"
          /\ UNCHANGED <<current_state, call, superseded>>
  /\ UNCHANGED <<shared, speech_rate, volume, worker, nextFile>>

\* a timeout that leaves the session awake
ActiveTimeoutStaysActive ==
  /\ Call("Returning to sleep", TRUE, FALSE, "loop")
  /\ UNCHANGED <<playback_event, speech_rate, current_state>>

\* except sr.WaitTimeoutError: (in ACTIVE)
ActiveTimeout ==
  /\ current_state' = SLEEP
  /\ Call("Returning to sleep", TRUE, FALSE, "loop")
  /\ UNCHANGED <<playback_event, speech_rate>>

\* elif self.current_state == self.states["ACTIVE"]:
DispatchActive ==
  /\ lpc = "dispatch" /\ current_state = ACTIVE
  /\ heard.kind # "HardError"
  /\ heard' = NotHeard
  /\ CASE heard.kind = "Timeout" -> ActiveTimeout
       [] heard.kind = "Unknown" ->
            /\ Call("I didn't understand that", TRUE, FALSE, "loop")
            /\ UNCHANGED <<playback_event, speech_rate, current_state>>
       [] OTHER ->
            LET c == Command(heard) IN
            /\ current_state' = c.state
            /\ playback_event' =
                 (CASE c.event = "clear" -> FALSE
                    [] c.event = "set" -> TRUE
                    [] OTHER -> playback_event)
            /\ speech_rate' = c.rate
            /\ Call(c.text, TRUE, FALSE, IF c.result THEN "loop" ELSE "retry")
  /\ UNCHANGED <<audio_queue, music, disk, removeCalls, attempts, volume, worker, nextFile>>

\* elif self.current_state == self.states["PAUSED"]:
DispatchPaused ==
  /\ lpc = "dispatch" /\ current_state = PAUSED
  /\ heard.kind # "HardError"
  /\ heard' = NotHeard
  /\ IF IsResume(heard)
     THEN /\ current_state' = ACTIVE
          /\ playback_event' = TRUE
          /\ Call("Resuming playback", TRUE, FALSE, "loop")
     ELSE /\ lpc' = "listen"
          /\ UNCHANGED <<current_state, playback_event, call, superseded>>
  /\ UNCHANGED <<audio_queue, music, disk, removeCalls, attempts, speech_rate, volume,
                 worker, nextFile>>

\* A caller in the loop asks for speech with flags of its choice: speak's
\* signature allows every combination of interruptible and priority
SpeakRequest ==
  /\ lpc = "listen"
  /\ nextFile <= MaxFiles
  /\ \E i \in BOOLEAN, p \in BOOLEAN : Call("Announcement", i, p, "loop")
  /\ UNCHANGED <<shared, session, worker, heard, nextFile>>

ListenLoop ==
  \/ MainSpeak \/ ListenLoopSpeak \/ Listen \/ HardError
  \/ DispatchSleep \/ DispatchActive \/ DispatchPaused \/ SpeakRequest

-----------------------------------------------------------------------------

Next == Worker \/ MusicFinish \/ Speak \/ ListenLoop

Spec == Init /\ [][Next]_vars

\* Both threads are scheduled again and again, and a file that plays ends
Fairness ==
  /\ WF_vars(Worker)
  /\ WF_vars(MusicFinish)
  /\ WF_vars(Speak)
  /\ WF_vars(ListenLoop)

FairSpec == Spec /\ Fairness

-----------------------------------------------------------------------------
(* The commands of a session, one after the other, with the audio left out:
   what the listen loop and process_command do to current_state,
   playback_event and speech_rate, and the text they hand to speak *)

SpeedInit ==
  /\ audio_queue = <<>>
  /\ playback_event = TRUE
  /\ current_state = SLEEP
  /\ speech_rate = DefaultRate
  /\ volume = DefaultVolume
  /\ music = Idle
  /\ disk = {}
  /\ removeCalls = [f \in Files |-> 0]
  /\ attempts = 0
  /\ nextFile = 1
  /\ wpc = "get"
  /\ audio_file = NoFile
  /\ lpc = "command"
  /\ heard = NotHeard
  /\ text = ""
  /\ interruptible = FALSE
  /\ priority = FALSE
  /\ temp_file = NoFile
  /\ ret = ""
  /\ queuedAtCall = {}
  /\ superseded = {}
  /\ lastStarted = NoFile

\* SLEEP: a wake word is heard; PAUSED: a wake word or a resume word
SpeedWake ==
  /\ lpc = "command" /\ current_state # ACTIVE
  /\ playback_event' = (IF current_state = PAUSED THEN TRUE ELSE playback_event)
  /\ text' = (IF current_state = PAUSED THEN "Resuming playback"
              ELSE "How can I help you?")
  /\ current_state' = ACTIVE
  /\ UNCHANGED <<audio_queue, music, disk, removeCalls, attempts, speech_rate,
                 volume, worker, interruptible, priority, temp_file, ret,
                 queuedAtCall, listener>>

\* ACTIVE: command = self.recognizer.recognize_google(audio).lower()
SpeedHear ==
  /\ lpc = "command" /\ current_state = ACTIVE
  /\ \E t \in Transcripts : heard' = Heard("Text", t)
  /\ lpc' = "process"
  /\ UNCHANGED <<shared, session, worker, call, nextFile, superseded>>

\* self.process_command(command)
SpeedProcess ==
  /\ lpc = "process"
  /\ LET c == Command(heard) IN
       /\ current_state' = c.state
       /\ playback_event' =
            (CASE c.event = "clear" -> FALSE
               [] c.event = "set" -> TRUE
               [] OTHER -> playback_event)
       /\ speech_rate' = c.rate
       /\ text' = c.text
  /\ heard' = NotHeard
  /\ lpc' = "command"
  /\ UNCHANGED <<audio_queue, music, disk, removeCalls, attempts, volume, worker,
                 interruptible, priority, temp_file, ret, queuedAtCall,
                 nextFile, superseded>>

SpeedNext == SpeedWake \/ SpeedHear \/ SpeedProcess

SpeedSpec == SpeedInit /\ [][SpeedNext]_vars

-----------------------------------------------------------------------------
(* _safe_remove, statement by statement, with os.remove free to fail: the
   worker calls it on one file after the other *)

RemoveInit ==
  /\ audio_queue = <<>>
  /\ playback_event = TRUE
  /\ current_state = SLEEP
  /\ speech_rate = DefaultRate
  /\ volume = DefaultVolume
  /\ music = Idle
  /\ disk \in SUBSET Files
  /\ removeCalls = [f \in Files |-> 0]
  /\ attempts = 0
  /\ nextFile = MaxFiles + 1
  /\ wpc = "get"
  /\ audio_file = NoFile
  /\ lpc = "listen"
  /\ heard = NotHeard
  /\ text = ""
  /\ interruptible = FALSE
  /\ priority = FALSE
  /\ temp_file = NoFile
  /\ ret = ""
  /\ queuedAtCall = {}
  /\ superseded = {}
  /\ lastStarted = NoFile

RemoveFrame ==
  UNCHANGED <<audio_queue, playback_event, music, session, lastStarted, call,
              listener>>

\* self._safe_remove(audio_file), on a file not yet released
SafeRemoveCall ==
  /\ wpc = "get"
  /\ \E f \in Files : ~Released(f) /\ audio_file' = f
  /\ wpc' = "remove"
  /\ UNCHANGED <<disk, removeCalls, attempts>>
  /\ RemoveFrame

\* try: if os.path.exists(filepath): os.remove(filepath) / except:
SafeRemoveFirst ==
  /\ wpc = "remove"
  /\ IF audio_file \notin disk
     THEN wpc' = "removed" /\ UNCHANGED <<disk, attempts>>
     ELSE /\ attempts' = attempts + 1
          /\ \E raised \in BOOLEAN :
               IF raised
               THEN wpc' = "retry" /\ disk' = disk
               ELSE wpc' = "removed" /\ disk' = disk \ {audio_file}
  /\ UNCHANGED <<removeCalls, audio_file>>
  /\ RemoveFrame

\* a second failure that is not caught
SafeRemoveRetryRaises ==
  /\ wpc = "retry"
  /\ IF audio_file \notin disk
     THEN wpc' = "removed" /\ UNCHANGED <<disk, attempts>>
     ELSE /\ attempts' = attempts + 1
          /\ \E raised \in BOOLEAN :
               IF raised
               THEN wpc' = "dead" /\ disk' = disk
               ELSE wpc' = "removed" /\ disk' = disk \ {audio_file}
  /\ UNCHANGED <<removeCalls, audio_file>>
  /\ RemoveFrame

\* time.sleep(0.5); try: if os.path.exists(filepath): os.remove(filepath)
\* except: pass
SafeRemoveRetry ==
  /\ wpc = "retry"
  /\ IF audio_file \notin disk
     THEN wpc' = "removed" /\ UNCHANGED <<disk, attempts>>
     ELSE /\ attempts' = attempts + 1
          /\ \E raised \in BOOLEAN :
               /\ wpc' = "removed"
               /\ disk' = (IF raised THEN disk ELSE disk \ {audio_file})
  /\ UNCHANGED <<removeCalls, audio_file>>
  /\ RemoveFrame

\* _safe_remove returns to the worker's loop
SafeRemoveReturn ==
  /\ wpc = "removed"
  /\ removeCalls' = [removeCalls EXCEPT ![audio_file] = @ + 1]
  /\ attempts' = 0
  /\ audio_file' = NoFile
  /\ wpc' = "get"
  /\ UNCHANGED disk
  /\ RemoveFrame

RemoveNext ==
  SafeRemoveCall \/ SafeRemoveFirst \/ SafeRemoveRetry \/ SafeRemoveReturn

RemoveSpec == RemoveInit /\ [][RemoveNext]_vars

-----------------------------------------------------------------------------
(* Steps the properties speak of *)

\* The worker starts to play audio_file
WorkerStarts == wpc = "play" /\ wpc' = "busy"

\* The worker releases audio_file
WorkerReleases == wpc = "remove" /\ wpc' = "get"

\* speak puts temp_file on the queue and returns
SpeakReturns == lpc = "put" /\ lpc' # "put"

-----------------------------------------------------------------------------
(* Properties *)

\* C1: no temp file is released more than once: _safe_remove is called at
\* most once for each file, by the worker or by speak's queue clearing.
C1_ReleasedAtMostOnce == \A f \in Files : removeCalls[f] <= 1

\* A file the worker played and released, and a later one that was never
\* played: speak's queue clearing released it.
C1_Witness ==
  /\ lastStarted # NoFile /\ Released(lastStarted)
  /\ \E f \in Files : f > lastStarted /\ Released(f)

\* C7: the worker starts files in the order they were enqueued (temp files
\* are numbered in the order speak puts them), and it starts one only when
\* the mixer plays nothing.
C7_FifoOneAtATime ==
  [][WorkerStarts =>
       /\ music.status = "idle"
       /\ audio_file > lastStarted
       /\ \A g \in Range(audio_queue) : g > audio_file]_vars

\* The worker plays its third file or a later one while another waits.
C7_Witness == wpc = "busy" /\ lastStarted >= 3 /\ audio_queue # <<>>

\* C8: a file that is still in the queue has not been released.
C8_QueuedNotReleased == \A f \in Range(audio_queue) : ~Released(f)

\* Files wait in the queue after both the worker and speak have released
\* others.
C8_Witness ==
  /\ Len(audio_queue) >= 2
  /\ \E f \in Files, g \in Files : f < g /\ f <= lastStarted /\ g > lastStarted
                                    /\ Released(f) /\ Released(g)

\* C3: when a priority call returns, the queue holds the new file alone and
\* every file that was queued when the call began has been released.
C3_PriorityLeavesOnlyNew ==
  [][(SpeakReturns /\ priority) =>
       /\ audio_queue' = <<temp_file>>
       /\ \A f \in queuedAtCall : Released(f)]_vars

\* C4: the worker never starts a file that was in the queue when a priority
\* call began.
C4_SupersededNeverStarted ==
  [][WorkerStarts => audio_file \notin superseded]_vars

\* C5: while playback_event is clear the worker neither starts a file nor
\* releases one.
C5_NoProgressWhilePaused ==
  [][~playback_event => ~WorkerStarts /\ ~WorkerReleases]_vars

\* C6: an error at load or play never stops the worker.
C6_WorkerSurvivesErrors == wpc # "dead"

\* C2: under fair scheduling every file put on the queue is released in the
\* end. The claim is granted the behaviours in which the process has ended
\* (an exception before the loop) or in which playback is paused: it fails
\* without them.
C2_QueuedEventuallyReleased ==
  \A f \in Files :
    (f \in Range(audio_queue)) ~>
      (Released(f) \/ lpc = "crashed" \/ ~playback_event)
-----------------------------------------------------------------------------
(* The state machine's rows *)

\* The listen loop acts on what it heard
Dispatches == lpc = "dispatch" /\ lpc' # "dispatch"

\* The command is a lookup (no earlier rule of process_command fires) of a
\* reference bible_data holds
LookupFound(h) ==
  /\ h.kind = "Text"
  /\ LET c == Normalize(LowerAll(h.words)) IN
       /\ ~Contains(c, <<"pause">>)
       /\ ~ContainsAny(c, ResumeWords \cup SleepWords \cup FasterWords \cup SlowerWords)
       /\ VerseMatch(c) # 0
       /\ VerseRef(c) \in DOMAIN bible_data

ReadJohn == Heard("Text", <<"Read", "John", "3:16">>)
JohnText == "Reading john3:16. For God so loved the world that he gave his only Son..."
ReadingTexts == {ReadingText(r) : r \in DOMAIN bible_data}
Greeting == "How can I help you?"

\* What a call speak(t, interruptible=True) does for t in T: it stops the
\* mixer when the mixer plays, it discards nothing, and its return appends
\* the new file to the queue, in state st
StopsAndAppends(T, st) ==
  text \in T =>
    /\ ~priority
    /\ (lpc = "speak" /\ lpc' # "speak") =>
         /\ music.status = "playing" => lpc' = "stop"
         /\ music.status = "idle" => lpc' = "synth"
    /\ (lpc = "stop" /\ lpc' # "stop") => music' = Idle
    /\ removeCalls' # removeCalls => WorkerReleases
    /\ SpeakReturns =>
         /\ audio_queue' = Append(audio_queue, temp_file)
         /\ temp_file \in disk
         /\ current_state' = st
         /\ lpc' = "listen"

\* C9 (as written): the lookup's request is an interrupt request: when the
\* call returns every request queued before is gone and the new one is alone
\* in the queue.
C9_LookupLeavesOnlyNew ==
  [][(SpeakReturns /\ text \in ReadingTexts) => audio_queue' = <<temp_file>>]_vars

\* C9 (amended): in ACTIVE a lookup of a known reference leaves the state
\* ACTIVE and calls speak with the mapped text, interruptible=True and
\* priority=False: the mixer is stopped if it plays, no queued request is
\* discarded, and the new request is appended behind those still queued.
C9_LookupStopsAndAppends ==
  [][/\ (Dispatches /\ current_state = ACTIVE /\ LookupFound(heard)) =>
          /\ current_state' = ACTIVE
          /\ lpc' = "speak"
          /\ text' = ReadingText(VerseRef(Normalize(LowerAll(heard.words))))
          /\ interruptible' /\ ~priority'
          /\ UNCHANGED <<audio_queue, playback_event, speech_rate>>
     /\ (Dispatches /\ current_state = ACTIVE /\ heard = ReadJohn) => text' = JohnText
     /\ StopsAndAppends(ReadingTexts, ACTIVE)]_vars

\* The verse is about to be queued behind a request that still waits.
C9_Witness ==
  lpc = "put" /\ text = JohnText /\ current_state = ACTIVE /\ audio_queue # <<>>

\* C10 (as written): the greeting is a request with interrupt=false: its call
\* never stops the mixer.
C10_GreetingNeverStops ==
  [][text = Greeting => ~(lpc = "stop" /\ lpc' = "synth")]_vars

\* C10 (amended): in SLEEP a transcript with a wake word moves the state to
\* ACTIVE and calls speak with the greeting, interruptible=True and
\* priority=False: the mixer is stopped if it plays, nothing queued is
\* discarded and the greeting is appended; a timeout or unintelligible
\* speech leaves the state SLEEP and makes no call.
C10_WakeStopsAndAppends ==
  [][/\ (Dispatches /\ current_state = SLEEP /\ IsWake(heard)) =>
          /\ current_state' = ACTIVE
          /\ lpc' = "speak"
          /\ text' = Greeting
          /\ interruptible' /\ ~priority'
          /\ UNCHANGED <<audio_queue, playback_event, speech_rate>>
     /\ (Dispatches /\ current_state = SLEEP /\ heard = Heard("Text", <<"Bible">>)) =>
          current_state' = ACTIVE
     /\ (Dispatches /\ current_state = SLEEP /\ heard.kind \in {"Timeout", "Unknown"}) =>
          /\ current_state' = SLEEP
          /\ lpc' = "listen"
          /\ UNCHANGED <<shared, speech_rate, volume, call, nextFile>>
     /\ StopsAndAppends({Greeting}, ACTIVE)]_vars

\* The greeting's call is about to stop a file that plays.
C10_Witness ==
  lpc = "stop" /\ text = Greeting /\ current_state = ACTIVE /\ music.status = "playing"

\* A call speak(t) for t in T returns: the new file, saved on disk, is
\* appended to the queue, and the state is st
ReturnsAppending(T, st) ==
  (SpeakReturns /\ text \in T) =>
    /\ audio_queue' = Append(audio_queue, temp_file)
    /\ temp_file \in disk
    /\ current_state' = st

ReturningToSleep == "Returning to sleep"
NotUnderstood == "I didn't understand that"
Resuming == "Resuming playback"

\* C11: in ACTIVE a listen timeout moves the state to SLEEP and queues
\* "Returning to sleep"; unintelligible speech leaves the state ACTIVE and
\* queues "I didn't understand that".
C11_ActiveTimeoutAndUnknown ==
  [][/\ (Dispatches /\ current_state = ACTIVE /\ heard.kind = "Timeout") =>
          /\ current_state' = SLEEP
          /\ lpc' = "speak" /\ text' = ReturningToSleep
          /\ UNCHANGED <<audio_queue, playback_event, speech_rate>>
     /\ (Dispatches /\ current_state = ACTIVE /\ heard.kind = "Unknown") =>
          /\ current_state' = ACTIVE
          /\ lpc' = "speak" /\ text' = NotUnderstood
          /\ UNCHANGED <<audio_queue, playback_event, speech_rate>>
     /\ ReturnsAppending({ReturningToSleep}, SLEEP)
     /\ ReturnsAppending({NotUnderstood}, ACTIVE)]_vars

\* After a timeout in ACTIVE the notice is about to be queued, in SLEEP.
C11_Witness == lpc = "put" /\ text = ReturningToSleep /\ current_state = SLEEP

\* C12: in PAUSED a transcript with a wake word, "resume" or "continue" moves
\* the state to ACTIVE, sets playback_event and queues "Resuming playback";
\* unintelligible speech or any other transcript leaves the state PAUSED and
\* playback_event clear, and queues nothing.
C12_PausedRows ==
  [][/\ (Dispatches /\ current_state = PAUSED /\ IsResume(heard)) =>
          /\ current_state' = ACTIVE
          /\ playback_event'
          /\ lpc' = "speak" /\ text' = Resuming
          /\ UNCHANGED <<audio_queue, speech_rate>>
     /\ (/\ Dispatches /\ current_state = PAUSED
         /\ heard \in {Heard("Text", <<"Bible">>), Heard("Text", <<"resume">>),
                       Heard("Text", <<"continue">>)}) =>
          current_state' = ACTIVE /\ playback_event'
     /\ (/\ Dispatches /\ current_state = PAUSED
         /\ \/ heard.kind = "Unknown"
            \/ heard.kind = "Text" /\ ~IsResume(heard)
            \/ heard = Heard("Text", <<"hello">>)) =>
          /\ current_state' = PAUSED
          /\ ~playback_event'
          /\ lpc' = "listen"
          /\ UNCHANGED <<shared, speech_rate, volume, call, nextFile>>
     /\ ReturnsAppending({Resuming}, ACTIVE)]_vars

\* The acknowledgement of a resume is about to be queued while the worker
\* still waits where the pause stopped it.
C12_Witness ==
  lpc = "put" /\ text = Resuming /\ playback_event /\ wpc = "wait"

\* C13: a hard failure in a listen cycle, from the recognizer or from gTTS
\* inside speak, puts the state to SLEEP in every mode, and the loop goes on
\* to listen again: only a failure before the loop ends the process.
C13_HardFailureSleeps ==
  [][/\ (Dispatches /\ heard.kind = "HardError") =>
          current_state' = SLEEP /\ lpc' = "listen"
     /\ (/\ lpc = "synth" /\ lpc' \notin {"synth", "put", "clear"}
         /\ ret \in {"loop", "retry"}) =>
          current_state' = SLEEP /\ lpc' = "listen"
     /\ (lpc # "crashed" /\ lpc' = "crashed") => ret \in {"listen_loop", "enter_loop"}]_vars

\* The loop listens again, asleep, after a hard failure that struck while
\* playback was paused.
C13_Witness == lpc = "listen" /\ current_state = SLEEP /\ ~playback_event

-----------------------------------------------------------------------------
(* Keywords, the two flags of speak, ownership of the session *)

\* C14: in ACTIVE every transcript that contains "stop" is answered as a stop,
\* whatever other keywords it holds, and leaves the state ACTIVE.
C14_StopKeywordStaysActive ==
  [][(/\ Dispatches /\ current_state = ACTIVE /\ heard.kind = "Text"
      /\ Contains(Normalize(heard.words), <<"stop">>)) =>
        current_state' = ACTIVE]_vars

\* C16 as stated: whenever speak(priority=True) reaches its busy test while
\* a file is playing, it goes on to stop the playback.
C16_PriorityAlwaysStops ==
  [][(lpc = "speak" /\ lpc' # "speak" /\ priority /\ music.status = "playing") =>
        lpc' = "stop"]_vars

\* C16: speak stops a playing file exactly when interruptible is True, for
\* either value of priority; the stop leaves the mixer idle and comes before
\* the new file exists, so before it is put; with interruptible False no
\* step of speak touches the mixer.
C16_InterruptibleStopsBeforePut ==
  [][/\ (lpc = "speak" /\ lpc' # "speak" /\ music.status = "playing") =>
          (lpc' = "stop" <=> interruptible)
     /\ (lpc = "speak" /\ lpc' # "speak" /\ music.status = "idle") =>
          lpc' = "synth"
     /\ (lpc = "stop" /\ lpc' # "stop") =>
          /\ music' = Idle
          /\ lpc' = "synth"
          /\ temp_file = NoFile
          /\ UNCHANGED audio_queue
     /\ (lpc' # lpc /\ ~interruptible) => music' = music]_vars

\* A priority call is about to stop the file that plays; its own file is not
\* synthesized yet.
C16_Witness ==
  /\ lpc = "stop" /\ priority /\ interruptible
  /\ music.status = "playing" /\ temp_file = NoFile

\* C17: a step of the audio worker or of the mixer leaves current_state,
\* speech_rate and volume alone; they change only in a step of the listen
\* thread that consumes the one outcome it heard, or in the handler of a
\* synthesis failure.
C17_WorkerLeavesSession ==
  [][/\ (worker' # worker \/ (music' # music /\ lpc' = lpc)) => session' = session
     /\ session' # session =>
          /\ worker' = worker
          /\ \/ Dispatches /\ heard # NotHeard /\ heard' = NotHeard
             \/ lpc = "synth" /\ lpc' = "listen"]_vars

\* The session was woken, sped up and paused while the worker, paused in
\* mid-file, has changed none of it.
C17_Witness ==
  wpc = "wait" /\ current_state = PAUSED /\ speech_rate # DefaultRate

\* C19: when a listen cycle starts with playback_event clear, the state is
\* PAUSED.
C19_FlagClearOnlyWhenPaused ==
  lpc = "listen" => (playback_event \/ current_state = PAUSED)

\* C20: the get of speak's clearing loop always finds an item: the listen
\* thread is the only one that puts, so a get on an empty queue never returns.
C20_ClearingGetFindsItem == ~(lpc = "get" /\ QueueEmpty(audio_queue))

-----------------------------------------------------------------------------
(* Speed and file removal *)

\* C15: from the default rate 1.0, whatever commands follow, speech_rate
\* stays within [0.5, 2.0]; a faster command never lowers it and raises it
\* unless it is 2.0 already, a slower command never raises it and lowers it
\* unless it is 0.5 already, and no other command changes it.
C15_RateClampedMonotone ==
  [][/\ speech_rate' >= MinRate /\ speech_rate' <= MaxRate
     /\ (lpc = "process" /\ heard.words \in {<<"faster">>, <<"speed", "up">>}) =>
          /\ speech_rate' >= speech_rate
          /\ speech_rate' = speech_rate => speech_rate = MaxRate
     /\ (lpc = "process" /\ heard.words \in {<<"slower">>, <<"slow", "down">>}) =>
          /\ speech_rate' <= speech_rate
          /\ speech_rate' = speech_rate => speech_rate = MinRate
     /\ (speech_rate' # speech_rate) =>
          /\ lpc = "process"
          /\ heard.words \in {<<"faster">>, <<"speed", "up">>,
                              <<"slower">>, <<"slow", "down">>}]_vars

\* "faster" has brought the rate to 2.0 and is heard once more.
C15_Witness ==
  /\ lpc = "process" /\ heard = Heard("Text", <<"faster">>)
  /\ speech_rate = MaxRate /\ text = "Speed set to 2.0x"

\* C18: one call of _safe_remove makes at most two os.remove attempts, the
\* second only after the first has failed; it returns in every case, and it
\* leaves the file behind only when both attempts have failed.
C18_TwoAttemptsThenReturns ==
  [][/\ attempts' <= 2
     /\ wpc' # "dead"
     /\ (wpc = "remove" /\ wpc' = "retry") => attempts' = 1 /\ audio_file \in disk'
     /\ (wpc = "retry" /\ wpc' # "retry") => wpc' = "removed"
     /\ (wpc # "removed" /\ wpc' = "removed" /\ audio_file \in disk') => attempts' = 2
     /\ (wpc = "removed" /\ wpc' # "removed") =>
          wpc' = "get" /\ removeCalls'[audio_file] > 0]_vars

\* Both attempts have failed: the call is about to return with the file
\* still on disk.
C18_Witness == wpc = "removed" /\ attempts = 2 /\ audio_file \in disk

====
